---------------------------- MODULE Spec2Model ----------------------------
(***************************************************************************)
(* The role registry of packages/ultra-controllers/src/roles.rs:          *)
(* RoleProvider wraps an IndexedMap from the stringified role (RolePK) to  *)
(* the grantee (RoleRecord = Addr) with one MultiIndex, roles_by_addr,     *)
(* whose index value is the grantee itself.                                *)
(*                                                                         *)
(* The store is a record of the two namespaces the constructor is given:   *)
(*   primary        the map's own entries, a function RolePK -> Addr whose *)
(*                  domain is the set of keys present;                     *)
(*   roles_by_addr  the entries of the MultiIndex, pairs <<Addr, RolePK>>. *)
(* An Option is a sequence of length at most one: <<>> is None and <<a>>   *)
(* is Some(a).                                                             *)
(***************************************************************************)
EXTENDS Naturals, Sequences, FiniteSets, TLC

VARIABLES
    store,  \* the contract storage the provider reads and writes
    pc,     \* "idle": no call in progress; "returned": a call has returned
    call,   \* the call that returned last, with its arguments
    ret,    \* what that call returned
    pre,    \* the store as it was when that call was entered
    reads,  \* the keys that call loaded from the primary map, in order
    fault   \* the storage step of that call that was made to fail, if any

vars == <<store, pc, call, ret, pre, reads, fault>>

\* Longest role slice handed to has_any_role / assert_any_role.
MaxRoles == 3

\* Accounts (cosmwasm_std::Addr values) that act as grantees and callers.
Addrs == {"alice", "bob", "imposter"}

\* enum Role
Role == {"ActivePool", "TroveManager", "Owner", "StabilityPool"}

\* A to_string with one arm copied from another: two roles, one key.
to_string_copied_arm(role) ==
    CASE role = "ActivePool" -> "active_pool"
      [] role = "TroveManager" -> "trove_manager"
      [] role = "Owner" -> "owner"
      [] role = "StabilityPool" -> "active_pool"

\* impl ToString for Role
to_string(role) ==
    CASE role = "ActivePool" -> "active_pool"
      [] role = "TroveManager" -> "trove_manager"
      [] role = "Owner" -> "owner"
      [] role = "StabilityPool" -> "stability_pool"

\* The role slices (&[Role]) of at most MaxRoles elements, repeats included.
RoleSlices == UNION {[1..n -> Role] : n \in 0..MaxRoles}

None == <<>>

Some(x) == <<x>>

\* Ok(()) of StdResult<()> and of Result<(), RolesError>.
Ok == [tag |-> "Ok"]

\* Ok(v) of StdResult<T>.
OkVal(v) == [tag |-> "Ok", val |-> v]

\* RolesError::Std
Std(msg) == [tag |-> "Std", msg |-> msg]

\* RolesError::UnauthorizedForRole
UnauthorizedForRole(label) == [tag |-> "UnauthorizedForRole", label |-> label]

\* No storage step is made to fail.
NoFault == [step |-> "none", nth |-> 0]

\* RoleProvider::new: both namespaces start with no entry.
EmptyStore == [primary |-> <<>>, roles_by_addr |-> {}]

\* The index function handed to MultiIndex::new: |addr| addr.clone()
roles_by_addr_index(addr) == addr

\* IndexedMap::may_load as `get` and `has_role` use it: the value under the
\* key, if the key is present.
may_load(st, pk) ==
    IF pk \in DOMAIN st.primary THEN Some(st.primary[pk]) ELSE None

\* MultiIndex::remove: drops the index entry (index(old), pk).
index_remove(st, pk, old) ==
    [st EXCEPT !.roles_by_addr = @ \ {<<roles_by_addr_index(old), pk>>}]

\* MultiIndex::save: adds the index entry (index(data), pk).
index_save(st, pk, data) ==
    [st EXCEPT !.roles_by_addr = @ \cup {<<roles_by_addr_index(data), pk>>}]

\* The primary map's save: writes data under pk.
primary_save(st, pk, data) ==
    LET old == st.primary
    IN  [st EXCEPT !.primary =
            [k \in DOMAIN old \cup {pk} |-> IF k = pk THEN data ELSE old[k]]]

\* The primary map's remove: drops pk.
primary_remove(st, pk) ==
    LET old == st.primary
    IN  [st EXCEPT !.primary = [k \in DOMAIN old \ {pk} |-> old[k]]]

\* IndexedMap::replace: the old record's index entry goes, then the new
\* record's index entry and the primary entry are written (or, with no new
\* record, the primary entry is removed).
replace(st, pk, data, old_data) ==
    LET s1 == IF old_data # None THEN index_remove(st, pk, old_data[1]) ELSE st
    IN  IF data # None
        THEN primary_save(index_save(s1, pk, data[1]), pk, data[1])
        ELSE primary_remove(s1, pk)

\* IndexedMap::save as `set` uses it: the store it leaves and its result.
save(st, pk, data) ==
    [store |-> replace(st, pk, Some(data), may_load(st, pk)), ret |-> Ok]

\* IndexedMap::remove as `delete` uses it: the store it leaves and its result.
remove(st, pk) ==
    [store |-> replace(st, pk, None, may_load(st, pk)), ret |-> Ok]

\* A delete that drops the index entry and leaves the primary entry.
delete_index_only(st, role) ==
    LET old_data == may_load(st, to_string(role))
    IN  [store |-> IF old_data # None
                   THEN index_remove(st, to_string(role), old_data[1])
                   ELSE st,
         ret |-> Ok]

\* A delete that revokes every role of the deleted role's grantee.
delete_all_of_grantee(st, role) ==
    LET old_data == may_load(st, to_string(role))
        gone == {k \in DOMAIN st.primary : Some(st.primary[k]) = old_data}
    IN  [store |-> [primary |-> [k \in DOMAIN st.primary \ gone |->
                                    st.primary[k]],
                    roles_by_addr |-> {e \in st.roles_by_addr :
                                          Some(e[1]) # old_data}],
         ret |-> Ok]

\* A delete that reports a missing grant as an error.
delete_strict(st, role) ==
    IF may_load(st, to_string(role)) = None
    THEN [store |-> st, ret |-> Std("not found")]
    ELSE remove(st, to_string(role))

\* RoleProvider::delete
delete(st, role) == remove(st, to_string(role))

\* A set that writes the primary entry alone, as a plain Map would.
set_primary_only(st, role, grantee) ==
    [store |-> primary_save(st, to_string(role), grantee), ret |-> Ok]

\* A set that indexes the new grantee and never drops the previous one.
set_keep_old_index(st, role, grantee) ==
    [store |-> primary_save(index_save(st, to_string(role), grantee),
                            to_string(role), grantee),
     ret |-> Ok]

\* A set that refuses a role that is already granted.
set_if_absent(st, role, grantee) ==
    IF may_load(st, to_string(role)) # None
    THEN [store |-> st, ret |-> Std("already granted")]
    ELSE save(st, to_string(role), grantee)

\* A set that writes the new entries first and drops the old record's index
\* entry last.
set_remove_old_last(st, role, grantee) ==
    LET pk == to_string(role)
        old_data == may_load(st, pk)
        s1 == primary_save(index_save(st, pk, grantee), pk, grantee)
    IN  [store |-> IF old_data # None THEN index_remove(s1, pk, old_data[1])
                   ELSE s1,
         ret |-> Ok]

\* A set over a unique index: an account that is indexed under another role
\* already is refused.
set_unique_index(st, role, grantee) ==
    IF \E e \in st.roles_by_addr : e[1] = grantee /\ e[2] # to_string(role)
    THEN [store |-> st, ret |-> Std("Violates unique constraint on index")]
    ELSE save(st, to_string(role), grantee)

\* RoleProvider::set
set(st, role, grantee) == save(st, to_string(role), grantee)

\* RoleProvider::get
get(st, role) == may_load(st, to_string(role))

\* A has_role whose default for an ungranted role is Ok(true).
has_role_default_true(st, role, caller) ==
    LET got == may_load(st, to_string(role))
    IN  IF got = None THEN TRUE ELSE got[1] = caller

\* RoleProvider::has_role: map_or_else(|| Ok(false), |addr| Ok(&addr == caller))
has_role(st, role, caller) ==
    LET got == may_load(st, to_string(role))
    IN  IF got = None THEN FALSE ELSE got[1] = caller

\* A has_any_role whose loop returns Ok(false) at the first role the caller
\* lacks instead of going on.
has_any_role_first_only(st, roles, caller) ==
    IF roles = <<>> THEN FALSE ELSE has_role(st, Head(roles), caller)

\* A has_any_role whose flag is overwritten by every role: the last role
\* of the slice decides.
has_any_role_last_only(st, roles, caller) ==
    IF roles = <<>> THEN FALSE ELSE has_role(st, roles[Len(roles)], caller)

\* RoleProvider::has_any_role: the loop over the slice, returning at the
\* first role the caller has.
RECURSIVE has_any_role(_, _, _)
has_any_role(st, roles, caller) ==
    IF roles = <<>> THEN FALSE
    ELSE IF has_role(st, Head(roles), caller) THEN TRUE
    ELSE has_any_role(st, Tail(roles), caller)

\* A has_any_role that loads every role of the slice before it answers.
has_any_role_reads_all(st, roles, caller) ==
    [i \in 1..Len(roles) |-> to_string(roles[i])]

\* RoleProvider::has_any_role: the keys its loop loads, one for each
\* has_role it calls, up to the role at which it returns.
RECURSIVE has_any_role_reads(_, _, _)
has_any_role_reads(st, roles, caller) ==
    IF roles = <<>> THEN <<>>
    ELSE IF has_role(st, Head(roles), caller) THEN <<to_string(Head(roles))>>
    ELSE <<to_string(Head(roles))>> \o has_any_role_reads(st, Tail(roles), caller)

\* [String]::join: the parts with sep between each two neighbours.
RECURSIVE join(_, _)
join(parts, sep) ==
    IF parts = <<>> THEN ""
    ELSE IF Len(parts) = 1 THEN parts[1]
    ELSE parts[1] \o sep \o join(Tail(parts), sep)

\* A label that names the role checked last alone.
any_role_label_last_checked(roles) ==
    IF roles = <<>> THEN "" ELSE to_string(roles[Len(roles)])

\* The label assert_any_role builds once its loop found no role.
any_role_label(roles) ==
    join([i \in 1..Len(roles) |-> to_string(roles[i])], " | ")

\* An assert_any_role that takes the empty slice to be satisfied.
assert_any_role_empty_ok(st, roles, caller, rest) ==
    IF roles = <<>> THEN Ok
    ELSE IF has_any_role(st, rest, caller) THEN Ok
    ELSE UnauthorizedForRole(any_role_label(roles))

\* An assert_any_role whose loop fails at the first role the caller lacks.
assert_any_role_first_only(st, roles, caller, rest) ==
    IF rest = <<>> THEN UnauthorizedForRole(any_role_label(roles))
    ELSE IF ~has_role(st, Head(rest), caller)
         THEN UnauthorizedForRole(any_role_label(roles))
         ELSE Ok

\* RoleProvider::assert_any_role: its own loop over the slice, then the error.
RECURSIVE assert_any_role(_, _, _, _)
assert_any_role(st, roles, caller, rest) ==
    IF rest = <<>> THEN UnauthorizedForRole(any_role_label(roles))
    ELSE IF ~has_role(st, Head(rest), caller)
         THEN assert_any_role(st, roles, caller, Tail(rest))
         ELSE Ok

\* An assert_role whose label is the variant's name, as {:?} prints it.
assert_role_debug_label(st, role, caller) ==
    IF ~has_role(st, role, caller)
    THEN UnauthorizedForRole(role)
    ELSE Ok

\* RoleProvider::assert_any_role: the keys its loop loads.
RECURSIVE assert_any_role_reads(_, _, _)
assert_any_role_reads(st, roles, caller) ==
    IF roles = <<>> THEN <<>>
    ELSE IF ~has_role(st, Head(roles), caller)
         THEN <<to_string(Head(roles))>>
                  \o assert_any_role_reads(st, Tail(roles), caller)
         ELSE <<to_string(Head(roles))>>

\* RoleProvider::assert_role
assert_role(st, role, caller) ==
    IF ~has_role(st, role, caller)
    THEN UnauthorizedForRole(to_string(role))
    ELSE Ok

(***************************************************************************)
(* The state machine: a caller invokes one operation at a time; the        *)
(* operation runs to its return, and the caller takes the result.          *)
(***************************************************************************)
NoCall == [op |-> "none"]

Init ==
    /\ store = EmptyStore
    /\ pc = "idle"
    /\ call = NoCall
    /\ ret = [tag |-> "none"]
    /\ pre = EmptyStore
    /\ reads = <<>>
    /\ fault = NoFault

\* The control state and the call record every operation leaves on return.
Returned(c, r) ==
    /\ pc' = "returned"
    /\ call' = c
    /\ ret' = r
    /\ pre' = store

Set ==
    /\ pc = "idle"
    /\ \E role \in Role, grantee \in Addrs :
        LET r == set(store, role, grantee)
        IN  /\ store' = r.store
            /\ Returned([op |-> "set", role |-> role, grantee |-> grantee],
                        r.ret)
            /\ reads' = <<to_string(role)>>
            /\ fault' = NoFault

Delete ==
    /\ pc = "idle"
    /\ \E role \in Role :
        LET r == delete(store, role)
        IN  /\ store' = r.store
            /\ Returned([op |-> "delete", role |-> role], r.ret)
            /\ reads' = <<to_string(role)>>
            /\ fault' = NoFault

\* A get that takes the grant out of the store as it returns it.
Get_take ==
    /\ pc = "idle"
    /\ \E role \in Role :
        /\ store' = delete(store, role).store
        /\ Returned([op |-> "get", role |-> role], OkVal(get(store, role)))
        /\ reads' = <<to_string(role)>>
        /\ fault' = NoFault

Get ==
    /\ pc = "idle"
    /\ \E role \in Role :
        /\ UNCHANGED store
        /\ Returned([op |-> "get", role |-> role], OkVal(get(store, role)))
        /\ reads' = <<to_string(role)>>
        /\ fault' = NoFault

HasRole ==
    /\ pc = "idle"
    /\ \E role \in Role, caller \in Addrs :
        /\ UNCHANGED store
        /\ Returned([op |-> "has_role", role |-> role, caller |-> caller],
                    OkVal(has_role(store, role, caller)))
        /\ reads' = <<to_string(role)>>
        /\ fault' = NoFault

HasAnyRole ==
    /\ pc = "idle"
    /\ \E roles \in RoleSlices, caller \in Addrs :
        /\ UNCHANGED store
        /\ Returned([op |-> "has_any_role", roles |-> roles, caller |-> caller],
                    OkVal(has_any_role(store, roles, caller)))
        /\ reads' = has_any_role_reads(store, roles, caller)
        /\ fault' = NoFault

AssertAnyRole ==
    /\ pc = "idle"
    /\ \E roles \in RoleSlices, caller \in Addrs :
        /\ UNCHANGED store
        /\ Returned([op |-> "assert_any_role", roles |-> roles, caller |-> caller],
                    assert_any_role(store, roles, caller, roles))
        /\ reads' = assert_any_role_reads(store, roles, caller)
        /\ fault' = NoFault

AssertRole ==
    /\ pc = "idle"
    /\ \E role \in Role, caller \in Addrs :
        /\ UNCHANGED store
        /\ Returned([op |-> "assert_role", role |-> role, caller |-> caller],
                    assert_role(store, role, caller))
        /\ reads' = <<to_string(role)>>
        /\ fault' = NoFault

\* The caller takes the result and is free to make its next call. A storage
\* error is fatal to the caller's execution: it makes no further call.
Return ==
    /\ pc = "returned"
    /\ ret.tag # "Std"
    /\ pc' = "idle"
    /\ call' = NoCall
    /\ ret' = [tag |-> "none"]
    /\ pre' = store
    /\ reads' = <<>>
    /\ fault' = NoFault
    /\ UNCHANGED store

Next ==
    \/ Set
    \/ Delete
    \/ Get
    \/ HasRole
    \/ HasAnyRole
    \/ AssertAnyRole
    \/ AssertRole
    \/ Return

Spec == Init /\ [][Next]_vars

(***************************************************************************)
(* Storage failures. Every storage step of the map whose StdResult the     *)
(* code propagates with `?` can be made to fail: the load of the old       *)
(* record ("load", the nth load of the call), the removal of the old       *)
(* record's index entry ("index_remove"), the write of the new index entry *)
(* ("index_save") and the write of the primary entry ("primary_save"). A   *)
(* step that fails writes nothing and returns the error; what the steps    *)
(* before it wrote stays written.                                          *)
(***************************************************************************)
\* The StdError of a failed storage step.
StorageErr == Std("storage failure")

\* The steps of IndexedMap::save and of IndexedMap::remove that return a
\* StdResult.
SaveSteps == {"load", "index_remove", "index_save", "primary_save"}

RemoveSteps == {"load", "index_remove"}

\* The failure of the first load of a call.
FirstLoad == [step |-> "load", nth |-> Len(<<"load">>)]

\* The failure of one step of a save or a remove.
StepFault(step) == IF step = "load" THEN FirstLoad ELSE [step |-> step, nth |-> 0]

\* IndexedMap::may_load with its StdResult.
may_load_faulty(st, pk, fails) ==
    IF fails THEN StorageErr ELSE OkVal(may_load(st, pk))

\* IndexedMap::replace with its StdResult: each `?` returns the error of the
\* step that failed, leaving the store as the steps before it left it.
replace_faulty(st, pk, data, old_data, f) ==
    IF old_data # None /\ f.step = "index_remove"
    THEN [store |-> st, ret |-> StorageErr]
    ELSE LET s1 == IF old_data # None
                   THEN index_remove(st, pk, old_data[1])
                   ELSE st
         IN  IF data = None
             THEN [store |-> primary_remove(s1, pk), ret |-> Ok]
             ELSE IF f.step = "index_save"
             THEN [store |-> s1, ret |-> StorageErr]
             ELSE LET s2 == index_save(s1, pk, data[1])
                  IN  IF f.step = "primary_save"
                      THEN [store |-> s2, ret |-> StorageErr]
                      ELSE [store |-> primary_save(s2, pk, data[1]),
                            ret |-> Ok]

\* IndexedMap::save with its StdResult.
save_faulty(st, pk, data, f) ==
    LET old_data == may_load_faulty(st, pk, f = FirstLoad)
    IN  IF old_data.tag = "Std" THEN [store |-> st, ret |-> old_data]
        ELSE replace_faulty(st, pk, Some(data), old_data.val, f)

\* IndexedMap::remove with its StdResult.
remove_faulty(st, pk, f) ==
    LET old_data == may_load_faulty(st, pk, f = FirstLoad)
    IN  IF old_data.tag = "Std" THEN [store |-> st, ret |-> old_data]
        ELSE replace_faulty(st, pk, None, old_data.val, f)

\* RoleProvider::delete over a store that can fail.
delete_faulty(st, role, f) == remove_faulty(st, to_string(role), f)

\* RoleProvider::set over a store that can fail.
set_faulty(st, role, grantee, f) == save_faulty(st, to_string(role), grantee, f)

\* RoleProvider::get over a store that can fail.
get_faulty(st, role, f) == may_load_faulty(st, to_string(role), f = FirstLoad)

\* A has_role that takes a failed load for an absent grant.
has_role_faulty_swallow(st, role, caller, fails) ==
    LET got == may_load_faulty(st, to_string(role), fails)
    IN  IF got.tag = "Std" THEN OkVal(FALSE)
        ELSE OkVal(IF got.val = None THEN FALSE ELSE got.val[1] = caller)

\* RoleProvider::has_role over a store that can fail: may_load(..)? returns
\* the error.
has_role_faulty(st, role, caller, fails) ==
    LET got == may_load_faulty(st, to_string(role), fails)
    IN  IF got.tag = "Std" THEN got
        ELSE OkVal(IF got.val = None THEN FALSE ELSE got.val[1] = caller)

\* RoleProvider::has_any_role over a store that can fail: has_role(..)?
\* returns the error. done is the keys loaded so far.
RECURSIVE has_any_role_faulty(_, _, _, _, _)
has_any_role_faulty(st, roles, caller, f, done) ==
    IF roles = <<>> THEN [ret |-> OkVal(FALSE), reads |-> done]
    ELSE LET now == Append(done, to_string(Head(roles)))
             has == has_role_faulty(st, Head(roles), caller,
                                    f.step = "load" /\ f.nth = Len(now))
         IN  IF has.tag = "Std" THEN [ret |-> has, reads |-> now]
             ELSE IF has.val THEN [ret |-> OkVal(TRUE), reads |-> now]
             ELSE has_any_role_faulty(st, Tail(roles), caller, f, now)

\* RoleProvider::assert_any_role over a store that can fail: has_role(..)?
\* returns the error as RolesError::Std.
RECURSIVE assert_any_role_faulty(_, _, _, _, _, _)
assert_any_role_faulty(st, roles, caller, f, rest, done) ==
    IF rest = <<>>
    THEN [ret |-> UnauthorizedForRole(any_role_label(roles)), reads |-> done]
    ELSE LET now == Append(done, to_string(Head(rest)))
             has == has_role_faulty(st, Head(rest), caller,
                                    f.step = "load" /\ f.nth = Len(now))
         IN  IF has.tag = "Std" THEN [ret |-> has, reads |-> now]
             ELSE IF ~has.val
             THEN assert_any_role_faulty(st, roles, caller, f, Tail(rest), now)
             ELSE [ret |-> Ok, reads |-> now]

\* RoleProvider::assert_role over a store that can fail.
assert_role_faulty(st, role, caller, f) ==
    LET has == has_role_faulty(st, role, caller, f = FirstLoad)
    IN  IF has.tag = "Std" THEN has
        ELSE IF ~has.val THEN UnauthorizedForRole(to_string(role))
        ELSE Ok

FaultySet ==
    /\ pc = "idle"
    /\ \E role \in Role, grantee \in Addrs, step \in SaveSteps :
        LET r == set_faulty(store, role, grantee, StepFault(step))
        IN  /\ store' = r.store
            /\ Returned([op |-> "set", role |-> role, grantee |-> grantee],
                        r.ret)
            /\ reads' = <<to_string(role)>>
            /\ fault' = StepFault(step)

FaultyDelete ==
    /\ pc = "idle"
    /\ \E role \in Role, step \in RemoveSteps :
        LET r == delete_faulty(store, role, StepFault(step))
        IN  /\ store' = r.store
            /\ Returned([op |-> "delete", role |-> role], r.ret)
            /\ reads' = <<to_string(role)>>
            /\ fault' = StepFault(step)

FaultyGet ==
    /\ pc = "idle"
    /\ \E role \in Role :
        /\ UNCHANGED store
        /\ Returned([op |-> "get", role |-> role],
                    get_faulty(store, role, FirstLoad))
        /\ reads' = <<to_string(role)>>
        /\ fault' = FirstLoad

FaultyHasRole ==
    /\ pc = "idle"
    /\ \E role \in Role, caller \in Addrs :
        /\ UNCHANGED store
        /\ Returned([op |-> "has_role", role |-> role, caller |-> caller],
                    has_role_faulty(store, role, caller, TRUE))
        /\ reads' = <<to_string(role)>>
        /\ fault' = FirstLoad

FaultyHasAnyRole ==
    /\ pc = "idle"
    /\ \E roles \in RoleSlices, caller \in Addrs :
        \E nth \in 1..Len(roles) :
            LET f == [step |-> "load", nth |-> nth]
                r == has_any_role_faulty(store, roles, caller, f, <<>>)
            IN  /\ UNCHANGED store
                /\ Returned([op |-> "has_any_role", roles |-> roles,
                             caller |-> caller], r.ret)
                /\ reads' = r.reads
                /\ fault' = f

FaultyAssertAnyRole ==
    /\ pc = "idle"
    /\ \E roles \in RoleSlices, caller \in Addrs :
        \E nth \in 1..Len(roles) :
            LET f == [step |-> "load", nth |-> nth]
                r == assert_any_role_faulty(store, roles, caller, f, roles,
                                            <<>>)
            IN  /\ UNCHANGED store
                /\ Returned([op |-> "assert_any_role", roles |-> roles,
                             caller |-> caller], r.ret)
                /\ reads' = r.reads
                /\ fault' = f

FaultyAssertRole ==
    /\ pc = "idle"
    /\ \E role \in Role, caller \in Addrs :
        /\ UNCHANGED store
        /\ Returned([op |-> "assert_role", role |-> role, caller |-> caller],
                    assert_role_faulty(store, role, caller, FirstLoad))
        /\ reads' = <<to_string(role)>>
        /\ fault' = FirstLoad

NextFault ==
    \/ Next
    \/ FaultySet
    \/ FaultyDelete
    \/ FaultyGet
    \/ FaultyHasRole
    \/ FaultyHasAnyRole
    \/ FaultyAssertAnyRole
    \/ FaultyAssertRole

\* The registry over a store whose steps can fail.
SpecFault == Init /\ [][NextFault]_vars

\* The secondary index read back: the role keys indexed under an account.
roles_of(st, addr) == {e[2] : e \in {x \in st.roles_by_addr : x[1] = addr}}

TypeOK ==
    /\ DOMAIN store.primary \subseteq {to_string(r) : r \in Role}
    /\ \A k \in DOMAIN store.primary : store.primary[k] \in Addrs
    /\ pc \in {"idle", "returned"}

(***************************************************************************)
(* The claims.                                                             *)
(***************************************************************************)
\* Whether the primary index grants role to addr.
Granted(st, role, addr) ==
    /\ to_string(role) \in DOMAIN st.primary
    /\ st.primary[to_string(role)] = addr

\* C1: index consistency. In every state reachable by set and delete, for
\* every role R and account A, get(R) = Some(A) exactly when roles_of(A)
\* contains R, and the secondary index holds nothing but the inverse of the
\* primary index.
C1_IndexConsistency ==
    /\ \A r \in Role, a \in Addrs :
          (get(store, r) = Some(a)) <=> (to_string(r) \in roles_of(store, a))
    /\ store.roles_by_addr =
          {<<store.primary[k], k>> : k \in DOMAIN store.primary}

\* C1's case: a set has just moved a role from one account to another while
\* other grants exist.
C1_Witness ==
    /\ pc = "returned"
    /\ call.op = "set"
    /\ get(pre, call.role) \notin {None, Some(call.grantee)}
    /\ Cardinality(store.roles_by_addr) >= 3

\* C2: single grantee per role. In every reachable state no role has two
\* accounts for which has_role is true, and no role is indexed under two
\* accounts.
C2_SingleGrantee ==
    \A r \in Role :
        /\ Cardinality({a \in Addrs : has_role(store, r, a)}) <= 1
        /\ Cardinality({e \in store.roles_by_addr : e[2] = to_string(r)}) <= 1

\* C2's case: a role granted to one account has just been set to another.
C2_Witness ==
    /\ pc = "returned"
    /\ call.op = "set"
    /\ \E a \in Addrs \ {call.grantee} : has_role(pre, call.role, a)
    /\ has_role(store, call.role, call.grantee)

\* C3: has_role correctness. has_role(R, C) is true exactly when R is granted
\* and its grantee is C; the call returns Ok(false), not an error, when R is
\* ungranted or granted to another account; and right after set(R, A),
\* has_role(R, A) is true and has_role(R, B) is false for every other B.
C3_HasRoleCorrect ==
    /\ \A r \in Role, c \in Addrs :
          has_role(store, r, c) <=> Granted(store, r, c)
    /\ (pc = "returned" /\ call.op = "has_role") =>
          ret = OkVal(Granted(pre, call.role, call.caller))
    /\ (pc = "returned" /\ call.op = "set") =>
          /\ has_role(store, call.role, call.grantee)
          /\ \A b \in Addrs \ {call.grantee} : ~has_role(store, call.role, b)

\* C3's case: has_role has answered false for a role another account holds.
C3_Witness ==
    /\ pc = "returned"
    /\ call.op = "has_role"
    /\ ret = OkVal(FALSE)
    /\ get(store, call.role) # None

\* C4: round trip. From any reachable state set(R, A) succeeds and a get(R)
\* that follows returns Some(A); after delete(R), get(R) returns None.
C4_RoundTrip ==
    /\ (pc = "returned" /\ call.op = "set") =>
          /\ ret = Ok
          /\ get(store, call.role) = Some(call.grantee)
    /\ (pc = "returned" /\ call.op = "delete") =>
          /\ ret = Ok
          /\ get(store, call.role) = None

\* C4's case: a delete has just removed a grant that was there.
C4_Witness ==
    /\ pc = "returned"
    /\ call.op = "delete"
    /\ get(pre, call.role) # None
    /\ get(store, call.role) = None

\* C5: overwrite. set(R, B) on a role granted to another account A succeeds
\* and leaves get(R) = Some(B), has_role(R, A) false, has_role(R, B) true, R
\* out of roles_of(A) and R in roles_of(B).
C5_Overwrite ==
    \A a \in Addrs :
        (/\ pc = "returned"
         /\ call.op = "set"
         /\ get(pre, call.role) = Some(a)
         /\ a # call.grantee)
        => /\ ret = Ok
           /\ get(store, call.role) = Some(call.grantee)
           /\ ~has_role(store, call.role, a)
           /\ has_role(store, call.role, call.grantee)
           /\ to_string(call.role) \notin roles_of(store, a)
           /\ to_string(call.role) \in roles_of(store, call.grantee)

\* C5's case: a set has overwritten the grant of an account that holds
\* another role too, in favour of an account that held none.
C5_Witness ==
    /\ pc = "returned"
    /\ call.op = "set"
    /\ roles_of(pre, call.grantee) = {}
    /\ \E a \in Addrs \ {call.grantee} :
          /\ get(pre, call.role) = Some(a)
          /\ Cardinality(roles_of(pre, a)) = 2
          /\ Cardinality(roles_of(store, a)) = 1

\* C6: frame of mutations. set(R, X) and delete(R) change the grant of R
\* alone: for every other role, get is the same before and after, and so is
\* its entry in the secondary index.
C6_Frame ==
    (pc = "returned" /\ call.op \in {"set", "delete"}) =>
        /\ \A r \in Role \ {call.role} : get(store, r) = get(pre, r)
        /\ {e \in store.roles_by_addr : e[2] # to_string(call.role)} =
           {e \in pre.roles_by_addr : e[2] # to_string(call.role)}

\* C6's case: a delete has removed one role of an account that keeps
\* another, while a second account holds a role as well.
C6_Witness ==
    /\ pc = "returned"
    /\ call.op = "delete"
    /\ \E a \in Addrs, b \in Addrs :
          /\ a # b
          /\ get(pre, call.role) = Some(a)
          /\ roles_of(store, a) # {}
          /\ roles_of(store, b) # {}

\* C7: idempotent delete. delete(R) of an ungranted role returns success and
\* leaves get(R) = None and the whole store as it was; a second delete(R)
\* right after a delete(R) changes nothing.
C7_IdempotentDelete ==
    /\ (pc = "returned" /\ call.op = "delete" /\ get(pre, call.role) = None) =>
          /\ ret = Ok
          /\ get(store, call.role) = None
          /\ store = pre
    /\ (pc = "returned" /\ call.op = "delete") =>
          delete(store, call.role) = [store |-> store, ret |-> Ok]

\* C7's case: a delete of an ungranted role has returned while other roles
\* are granted.
C7_Witness ==
    /\ pc = "returned"
    /\ call.op = "delete"
    /\ get(pre, call.role) = None
    /\ pre.roles_by_addr # {}

\* C8: has_any_role disjunction. For every role sequence, repeats included,
\* and every account C, has_any_role(roles, C) returns true exactly when some
\* role of the sequence has has_role(role, C) true; for the empty sequence it
\* returns false.
C8_HasAnyRoleDisjunction ==
    (pc = "returned" /\ call.op = "has_any_role") =>
        /\ ret = OkVal(\E i \in 1..Len(call.roles) :
                          has_role(pre, call.roles[i], call.caller))
        /\ (call.roles = <<>>) => (ret = OkVal(FALSE))

\* C8's case: has_any_role has answered true for a sequence with a repeated
\* role whose last element alone is one the caller holds.
C8_Witness ==
    /\ pc = "returned"
    /\ call.op = "has_any_role"
    /\ ret = OkVal(TRUE)
    /\ Len(call.roles) = 3
    /\ call.roles[1] = call.roles[2]
    /\ ~has_role(pre, call.roles[1], call.caller)
    /\ has_role(pre, call.roles[3], call.caller)

\* C9: assert_any_role agrees with has_any_role. assert_any_role(roles, C)
\* returns Ok(()) exactly when has_any_role(roles, C) is true and
\* UnauthorizedForRole exactly when it is false, the empty sequence included;
\* assert_role(R, C) returns Ok(()) exactly when has_role(R, C) is true and
\* UnauthorizedForRole otherwise.
C9_AssertAgreesWithHas ==
    /\ (pc = "returned" /\ call.op = "assert_any_role") =>
          /\ (ret = Ok) <=> has_any_role(pre, call.roles, call.caller)
          /\ (ret.tag = "UnauthorizedForRole") <=>
                ~has_any_role(pre, call.roles, call.caller)
          /\ (call.roles = <<>>) => (ret.tag = "UnauthorizedForRole")
    /\ (pc = "returned" /\ call.op = "assert_role") =>
          /\ (ret = Ok) <=> has_role(pre, call.role, call.caller)
          /\ (ret.tag = "UnauthorizedForRole") <=>
                ~has_role(pre, call.role, call.caller)

\* C9's case: assert_any_role has returned Ok(()) for a caller who lacks the
\* first role of the sequence and holds a later one.
C9_Witness ==
    /\ pc = "returned"
    /\ call.op = "assert_any_role"
    /\ ret = Ok
    /\ Len(call.roles) >= 2
    /\ ~has_role(pre, call.roles[1], call.caller)

\* The canonical keys of the first n roles, in their order, " | " between.
RECURSIVE KeysInOrder(_, _)
KeysInOrder(roles, n) ==
    IF n = 0 THEN ""
    ELSE IF n = 1 THEN to_string(roles[1])
    ELSE KeysInOrder(roles, n - 1) \o " | " \o to_string(roles[n])

\* C10: assert_any_role failure label. Whenever assert_any_role(roles, C)
\* fails, the label of its UnauthorizedForRole error is the canonical keys of
\* all the roles of the input, in input order and with repeats kept,
\* separated by " | "; [Owner, ActivePool, StabilityPool] gives exactly
\* "owner | active_pool | stability_pool".
C10_FailureLabel ==
    (pc = "returned" /\ call.op = "assert_any_role" /\ ret # Ok) =>
        /\ ret = UnauthorizedForRole(KeysInOrder(call.roles, Len(call.roles)))
        /\ (call.roles = <<"Owner", "ActivePool", "StabilityPool">>) =>
              (ret.label = "owner | active_pool | stability_pool")

\* C10's case: assert_any_role has failed on [Owner, ActivePool,
\* StabilityPool] for a caller while another account is the owner.
C10_Witness ==
    /\ pc = "returned"
    /\ call.op = "assert_any_role"
    /\ call.roles = <<"Owner", "ActivePool", "StabilityPool">>
    /\ ret.tag = "UnauthorizedForRole"
    /\ get(pre, "Owner") \notin {None, Some(call.caller)}

\* Whether role is denied to every account: has_role is false and assert_role
\* fails with the role's canonical key as label.
Denied(st, role) ==
    \A c \in Addrs :
        /\ ~has_role(st, role, c)
        /\ assert_role(st, role, c) = UnauthorizedForRole(to_string(role))

\* C11: post-delete denial. Once delete(R) has returned, R is denied to every
\* account, the former grantee included, with label the canonical key of R
\* ("owner" for Owner); a denied role stays denied over every step that is
\* not a set of that role; and an assert_role made on a denied role returns
\* that error.
C11_PostDeleteDenial ==
    [][/\ (pc' = "returned" /\ call'.op = "delete") =>
            /\ Denied(store', call'.role)
            /\ (call'.role = "Owner") =>
                  \A c \in Addrs :
                      assert_role(store', "Owner", c) =
                          [tag |-> "UnauthorizedForRole", label |-> "owner"]
       /\ \A r \in Role :
            (/\ Denied(store, r)
             /\ ~(pc' = "returned" /\ call'.op = "set" /\ call'.role = r))
            => Denied(store', r)
       /\ (pc' = "returned" /\ call'.op = "assert_role"
                /\ Denied(store, call'.role)) =>
            ret' = UnauthorizedForRole(to_string(call'.role))]_vars

\* C11's case: delete(Owner) has just revoked an account that holds another
\* role still, and assert_role(Owner, _) now fails for that account.
C11_Witness ==
    /\ pc = "returned"
    /\ call.op = "delete"
    /\ call.role = "Owner"
    /\ \E a \in Addrs :
          /\ get(pre, "Owner") = Some(a)
          /\ roles_of(store, a) # {}
          /\ assert_role(store, "Owner", a) = UnauthorizedForRole("owner")

\* The operations that take the store by shared reference.
Queries ==
    {"get", "has_role", "has_any_role", "assert_role", "assert_any_role"}

\* C13: queries are read-only. get, has_role, has_any_role, assert_role and
\* assert_any_role leave the primary and the secondary index as they were,
\* whatever they return.
C13_QueriesReadOnly ==
    (pc = "returned" /\ call.op \in Queries) =>
        /\ store.primary = pre.primary
        /\ store.roles_by_addr = pre.roles_by_addr

\* C13's case: a get has returned Some while several roles are granted.
C13_Witness ==
    /\ pc = "returned"
    /\ call.op = "get"
    /\ ret.val # None
    /\ Cardinality(DOMAIN store.primary) >= 2

\* C15: the role key mapping is total and injective. Each of the four roles
\* has a key, no two roles share one, and a set or delete writes or removes
\* the entry of its own role's key and of no other role.
C15_KeysInjective ==
    /\ \A r \in Role : to_string(r) \in STRING
    /\ \A r1 \in Role, r2 \in Role : (to_string(r1) = to_string(r2)) => (r1 = r2)
    /\ Cardinality({to_string(r) : r \in Role}) = Cardinality(Role)
    /\ (pc = "returned" /\ call.op \in {"set", "delete"}) =>
          \A r \in Role \ {call.role} :
              /\ (to_string(r) \in DOMAIN store.primary) <=>
                    (to_string(r) \in DOMAIN pre.primary)
              /\ get(store, r) = get(pre, r)

\* C15's case: all four roles are granted at once, each under its own key.
C15_Witness ==
    /\ pc = "returned"
    /\ call.op = "set"
    /\ Cardinality(DOMAIN pre.primary) = 3
    /\ Cardinality(DOMAIN store.primary) = 4

\* The roles that occur in a slice.
Range(roles) == {roles[i] : i \in 1..Len(roles)}

\* One fixed repeat-free slice of the roles of a set.
RECURSIVE SetToSeq(_)
SetToSeq(S) ==
    IF S = {} THEN <<>>
    ELSE LET x == CHOOSE y \in S : TRUE
         IN  <<x>> \o SetToSeq(S \ {x})

Reverse(roles) == [i \in 1..Len(roles) |-> roles[Len(roles) + 1 - i]]

\* C17: order independence of has_any_role. Its result is that of the
\* reversed slice and that of the one repeat-free slice fixed for the same
\* set of roles; so any two slices with the same roles, in any order and
\* with any repeats, give the same result in the same state for the same
\* account.
C17_OrderIndependent ==
    (pc = "returned" /\ call.op = "has_any_role") =>
        /\ ret = OkVal(has_any_role(pre, SetToSeq(Range(call.roles)),
                                    call.caller))
        /\ ret = OkVal(has_any_role(pre, Reverse(call.roles), call.caller))

\* C17's case: has_any_role has answered true for a slice of three with a
\* repeated role whose first element the caller lacks.
C17_Witness ==
    /\ pc = "returned"
    /\ call.op = "has_any_role"
    /\ ret = OkVal(TRUE)
    /\ Len(call.roles) = 3
    /\ Cardinality(Range(call.roles)) = 2
    /\ call.roles[1] = call.roles[3]
    /\ ~has_role(pre, call.roles[1], call.caller)

\* C18: re-granting is a no-op. set(R, A) on a role A holds already succeeds
\* and leaves both indexes as they were, with one index entry for R under A;
\* a second set(R, A) right after a set(R, A) changes nothing.
C18_RegrantNoOp ==
    /\ (pc = "returned" /\ call.op = "set"
            /\ get(pre, call.role) = Some(call.grantee)) =>
          /\ ret = Ok
          /\ store = pre
          /\ {e \in store.roles_by_addr : e[2] = to_string(call.role)} =
                {<<call.grantee, to_string(call.role)>>}
    /\ (pc = "returned" /\ call.op = "set") =>
          set(store, call.role, call.grantee) = [store |-> store, ret |-> Ok]

\* C18's case: a role has been set again to its holder, who holds another
\* role too.
C18_Witness ==
    /\ pc = "returned"
    /\ call.op = "set"
    /\ get(pre, call.role) = Some(call.grantee)
    /\ Cardinality(roles_of(pre, call.grantee)) >= 2

\* C19: one account may hold several roles. A set(R, A) for an account that
\* holds other roles succeeds and A then has R and each of them, in has_role
\* and in roles_of(A); all the roles has_role is true of for one account,
\* however many, are in its roles_of; and a delete(R1) or a set of R1 to
\* another account takes R1 alone out of the former holder's roles.
C19_SeveralRoles ==
    /\ (pc = "returned" /\ call.op = "set") =>
          /\ ret = Ok
          /\ has_role(store, call.role, call.grantee)
          /\ \A r2 \in Role \ {call.role} :
                has_role(pre, r2, call.grantee) =>
                    /\ has_role(store, r2, call.grantee)
                    /\ {to_string(call.role), to_string(r2)} \subseteq
                          roles_of(store, call.grantee)
    /\ \A a \in Addrs :
          {to_string(r) : r \in {x \in Role : has_role(store, x, a)}}
              \subseteq roles_of(store, a)
    /\ \A a \in Addrs :
          (/\ pc = "returned"
           /\ call.op \in {"set", "delete"}
           /\ get(pre, call.role) = Some(a)
           /\ (call.op = "set") => (call.grantee # a))
          => /\ roles_of(store, a) = roles_of(pre, a) \ {to_string(call.role)}
             /\ \A r2 \in Role \ {call.role} :
                   has_role(pre, r2, a) => has_role(store, r2, a)

\* C19's case: a set has just given a second role to an account that held
\* one.
C19_Witness ==
    /\ pc = "returned"
    /\ call.op = "set"
    /\ Cardinality(roles_of(pre, call.grantee)) = 1
    /\ Cardinality(roles_of(store, call.grantee)) = 2
    /\ \A k \in roles_of(store, call.grantee) :
          \E r \in Role : to_string(r) = k /\ has_role(store, r, call.grantee)

\* The positions of a slice whose role the account holds.
Hits(st, roles, caller) ==
    {i \in 1..Len(roles) : has_role(st, roles[i], caller)}

\* C16: short-circuit of has_any_role and assert_any_role. The roles are
\* loaded in input order up to the first role the caller holds: the number
\* of primary-index reads is the position of the first match when there is
\* one and the length of the slice when there is none, and no role after the
\* first match is read.
C16_ShortCircuit ==
    (pc = "returned" /\ call.op \in {"has_any_role", "assert_any_role"}) =>
        LET hits == Hits(pre, call.roles, call.caller)
        IN  /\ (hits # {}) =>
                  /\ Len(reads) \in hits
                  /\ \A i \in hits : Len(reads) <= i
            /\ (hits = {}) => (Len(reads) = Len(call.roles))
            /\ reads = [i \in 1..Len(reads) |-> to_string(call.roles[i])]

\* C16's case: assert_any_role has stopped at the second of three roles, the
\* first the caller holds, the third being one the caller holds too.
C16_Witness ==
    /\ pc = "returned"
    /\ call.op = "assert_any_role"
    /\ Len(call.roles) = 3
    /\ Hits(pre, call.roles, call.caller) = {2, 3}
    /\ Len(reads) = 2
    /\ ret = Ok

\* C20: empty-sequence assertion. assert_any_role([], C) fails in every
\* state and for every account with UnauthorizedForRole whose label is the
\* empty string, and reads nothing from the store.
C20_EmptyAssertion ==
    /\ \A c \in Addrs :
          assert_any_role(store, <<>>, c, <<>>) =
              [tag |-> "UnauthorizedForRole", label |-> ""]
    /\ (pc = "returned" /\ call.op = "assert_any_role" /\ call.roles = <<>>) =>
          /\ ret = [tag |-> "UnauthorizedForRole", label |-> ""]
          /\ reads = <<>>

\* C20's case: assert_any_role([], C) has failed for an account that holds a
\* role.
C20_Witness ==
    /\ pc = "returned"
    /\ call.op = "assert_any_role"
    /\ call.roles = <<>>
    /\ ret.tag = "UnauthorizedForRole"
    /\ roles_of(pre, call.caller) # {}

\* C12: atomicity of index updates under failure. Whether a set or a delete
\* returns success or a storage error, from a failure at any one storage
\* step inside it, the store it leaves never has one index changed without
\* the other: the secondary index is still the inverse of the primary index,
\* and an operation that failed has changed neither.
C12_AtomicUnderFailure ==
    (pc = "returned" /\ call.op \in {"set", "delete"}) =>
        /\ store.roles_by_addr =
              {<<store.primary[k], k>> : k \in DOMAIN store.primary}
        /\ (ret.tag = "Std") =>
              ((store.primary = pre.primary) <=>
                   (store.roles_by_addr = pre.roles_by_addr))

\* Whether the failure injected into the last call was reached: the step
\* made to fail is one the call got to.
FaultReached ==
    CASE fault.step = "none" -> FALSE
      [] fault.step = "index_remove" -> get(pre, call.role) # None
      [] fault.step \in {"index_save", "primary_save"} -> call.op = "set"
      [] fault.step = "load" ->
            IF call.op = "has_any_role"
            THEN fault.nth <= Len(has_any_role_reads(pre, call.roles,
                                                     call.caller))
            ELSE IF call.op = "assert_any_role"
            THEN fault.nth <= Len(assert_any_role_reads(pre, call.roles,
                                                        call.caller))
            ELSE TRUE

\* C14: error taxonomy. With no storage step failing, an ungranted role or a
\* mismatched caller is never a Std error: get returns None, has_role and
\* has_any_role return false, assert_role and assert_any_role return
\* UnauthorizedForRole. A storage failure during a check is returned as the
\* Std error, never as false, Ok(()) or UnauthorizedForRole.
C14_ErrorTaxonomy ==
    (pc = "returned" /\ call.op \in Queries) =>
        /\ FaultReached => (ret = StorageErr)
        /\ ~FaultReached =>
              /\ ret.tag # "Std"
              /\ (call.op = "get") =>
                    (ret = OkVal(IF to_string(call.role) \in DOMAIN pre.primary
                                 THEN Some(pre.primary[to_string(call.role)])
                                 ELSE None))
              /\ (call.op = "has_role") =>
                    (ret = OkVal(Granted(pre, call.role, call.caller)))
              /\ (call.op = "has_any_role") =>
                    (ret = OkVal(Hits(pre, call.roles, call.caller) # {}))
              /\ (call.op = "assert_role") =>
                    (ret = IF Granted(pre, call.role, call.caller) THEN Ok
                           ELSE UnauthorizedForRole(to_string(call.role)))
              /\ (call.op = "assert_any_role") =>
                    (ret.tag = IF Hits(pre, call.roles, call.caller) # {}
                               THEN "Ok" ELSE "UnauthorizedForRole")

\* C14's case: the second load of an assert_any_role has failed, after a
\* first role the caller lacks, and the call has returned the Std error.
C14_Witness ==
    /\ pc = "returned"
    /\ call.op = "assert_any_role"
    /\ fault = [step |-> "load", nth |-> 2]
    /\ Len(reads) = 2
    /\ ret = StorageErr
    /\ Hits(pre, call.roles, call.caller) # {}

=============================================================================
